---- MODULE Spec2Model ----
(***************************************************************************)
(* The search-indexing core of the commerce backend: AlgoliaService        *)
(* (services/algolia.service.ts), the catalog sync script                  *)
(* (scripts/sync-products.ts and its revision sync-published-products.ts)  *)
(* and the product event subscriber (subscribers/product.subscribers.ts).  *)
(*                                                                         *)
(* The remote search index is a set of records, at most one per objectID.  *)
(* One operation runs at a time; every engine call (getSettings,           *)
(* setSettings, clearObjects, saveObjects, searchSingleIndex,              *)
(* deleteObjects) and every catalog call is one step that either succeeds  *)
(* or throws.  A JavaScript value that is missing, undefined or the empty  *)
(* string is the empty string "" here (all are falsy in the code's tests). *)
(*                                                                         *)
(* Further down, the same variables carry two more state machines: the     *)
(* building of one record's value fields by the service and by the sync    *)
(* script with its inventory lookup (SpecFields), and a search request     *)
(* through a search route and AlgoliaService.search (SpecSearch).  At the  *)
(* end come the start of the hosting process (SpecStartup), the operations *)
(* over a catalog with a defective variant (SpecDefects), two concurrent   *)
(* updateProduct calls (SpecConcurrent), the customers OTP routes          *)
(* (SpecOtp), the bulk inventory handler (SpecBulk), the rate limiter      *)
(* (SpecRate) and the signup gate (SpecSignup); each states above its      *)
(* definitions what the variables carry.                                   *)
(***************************************************************************)
EXTENDS Integers, Sequences, FiniteSets, TLC

VARIABLES
    catalog,       \* the source catalog: product id -> product, or NoProduct
    index,         \* the remote search index: a set of records
    pc,            \* position of the running operation
    op,            \* the running operation: [name, script, pid, product]
    products,      \* the product list an operation works on
    records,       \* the records handed to indexAlgoliaRecords
    validRecords,  \* indexAlgoliaRecords: the records that passed validation
    i,             \* indexAlgoliaRecords: the loop index of the batch loop
    hits,          \* deleteProduct: the hits of the product_id search
    calls,         \* the engine calls issued by the running operation, in order
    fetches,       \* the catalog calls issued by the running operation, in order
    result,        \* "none" while running, then "ok" or "error"
    index0,        \* the index when the running operation started
    opsLeft        \* operations still allowed to start

vars == <<catalog, index, pc, op, products, records, validRecords, i, hits,
          calls, fetches, result, index0, opsLeft>>

(***************************************************************************)
(* Bounds of the model.                                                    *)
(***************************************************************************)
MaxOps == 2
MaxDirect == 2
MaxBatchRecords == 2501

ProductIds == {"p1", "p2"}
VariantIds == {"A", "B"}
Titles == {"", "T1", "T2"}
VariantLists == {<<>>, <<[id |-> "A"]>>, <<[id |-> "A"], [id |-> "B"]>>}

NoProduct == [id |-> "", title |-> "", variants |-> <<>>]

\* The products one catalog slot can hold: p1 takes every title and variant
\* list, the second product a single shape (it is there to be left alone).
ProductsOf(pid) ==
    IF pid = "p1"
    THEN {[id |-> pid, title |-> t, variants |-> vs] : t \in Titles, vs \in VariantLists}
    ELSE {[id |-> pid, title |-> "T1", variants |-> <<[id |-> "A"]>>]}

Catalogs == {c \in [ProductIds -> UNION {ProductsOf(p) : p \in ProductIds} \cup {NoProduct}] :
                \A p \in ProductIds : c[p] = NoProduct \/ c[p] \in ProductsOf(p)}

(***************************************************************************)
(* Sequence helpers.                                                       *)
(***************************************************************************)
Range(s) == {s[k] : k \in 1..Len(s)}

Min(a, b) == IF a < b THEN a ELSE b

RECURSIVE Flatten(_)
Flatten(ss) == IF ss = <<>> THEN <<>> ELSE Head(ss) \o Flatten(Tail(ss))

(***************************************************************************)
(* Records.  An index record carries its key, the ids the service filters  *)
(* on, and product_title, which stands for the product data it was built   *)
(* from.  A field the writer does not set is "".                           *)
(***************************************************************************)
Rec(objectID, product_id, variant_id, product_title) ==
    [objectID |-> objectID, product_id |-> product_id,
     variant_id |-> variant_id, product_title |-> product_title]

\* AlgoliaService.validateProduct
validateProductIdOnly(product) ==
    /\ product # NoProduct
    /\ product.id # ""

validateProduct(product) ==
    /\ product # NoProduct
    /\ product.id # ""
    /\ product.title # ""
    /\ Len(product.variants) # 0

\* AlgoliaService.validateVariant
validateVariant(variant) == variant.id # ""

\* AlgoliaService.validateAlgoliaRecord
validateAlgoliaRecordIdOnly(record) == record.objectID # ""

validateAlgoliaRecord(record) ==
    /\ record.objectID # ""
    /\ record.product_title # ""

\* AlgoliaService.transformProductToRecord (the ids are checked by the callers'
\* validateProduct / validateVariant before it runs)
transformProductToRecord(product, variant) ==
    Rec(product.id \o "_" \o variant.id, product.id, variant.id, product.title)

\* AlgoliaService.indexProducts, the loops that build the records
ProductRecords(product) ==
    IF ~validateProduct(product) THEN <<>>
    ELSE LET vs == SelectSeq(product.variants, validateVariant)
         IN  [k \in 1..Len(vs) |-> transformProductToRecord(product, vs[k])]

IndexProductsRecords(ps) == Flatten([k \in 1..Len(ps) |-> ProductRecords(ps[k])])

(***************************************************************************)
(* The sync script.  Two revisions are in the repository:                  *)
(*   "sync-products"  scripts/sync-products.ts: a health check first,      *)
(*                    objectID `${product.id}-${variant.id}`, no           *)
(*                    product_id / variant_id on the record;               *)
(*   "sync-published" the revised sync-published-products.ts: no health    *)
(*                    check, objectID `${product.id}_${variant.id}` and    *)
(*                    product_id / variant_id set.                         *)
(***************************************************************************)
Scripts == {"sync-products", "sync-published"}

\* the record of a product without variants
SyncDefaultRecord(script, product) ==
    IF script = "sync-products"
    THEN Rec(product.id \o "-" \o "default", "", "", product.title)
    ELSE Rec(product.id \o "_" \o "default", product.id, "default", product.title)

\* the text a template literal gives a value: a missing one reads "undefined"
TemplateText(v) == IF v = "" THEN "undefined" ELSE v

\* the record of one (product, variant) pair
SyncVariantRecord(script, product, variant) ==
    IF script = "sync-products"
    THEN Rec(product.id \o "-" \o TemplateText(variant.id), "", "", product.title)
    ELSE Rec(product.id \o "_" \o TemplateText(variant.id), product.id, variant.id,
             product.title)

\* null at a position of a variants array: it has no id, and reading a
\* property of it throws a TypeError
NullVariant == [id |-> "", null |-> TRUE]

\* the script's loop reads variant.prices of every variant it visits, outside
\* any try of its own
SyncTransformThrows(ps) ==
    \E k \in 1..Len(ps) : \E j \in 1..Len(ps[k].variants) :
        "null" \in DOMAIN ps[k].variants[j]

\* the loop over publishedProducts that fills algoliaRecords
SyncProductRecords(script, product) ==
    IF Len(product.variants) = 0
    THEN <<SyncDefaultRecord(script, product)>>
    ELSE [k \in 1..Len(product.variants) |->
             SyncVariantRecord(script, product, product.variants[k])]

SyncRecords(script, ps) ==
    Flatten([k \in 1..Len(ps) |-> SyncProductRecords(script, ps[k])])

\* response.data.products of the catalog API: the products of the catalog
CatalogList(c) ==
    LET one(p) == IF c[p] = NoProduct THEN <<>> ELSE <<c[p]>>
    IN  one("p1") \o one("p2")

(***************************************************************************)
(* The search engine.  saveObjects replaces or adds one record per         *)
(* objectID (the last of a batch wins), deleteObjects removes by objectID, *)
(* clearObjects removes everything, and a filtered search returns at most  *)
(* hitsPerPage of the matching records: which ones, when more match, is    *)
(* the engine's choice.                                                    *)
(***************************************************************************)
\* AlgoliaService.deleteProduct: hitsPerPage of the product_id search
hitsPerPage == 1000

\* AlgoliaService.indexAlgoliaRecords: batchSize
batchSize == 1000

ObjectIDs(batch) == {batch[k].objectID : k \in 1..Len(batch)}

LastWins(batch) ==
    IF Cardinality(ObjectIDs(batch)) = Len(batch)
    THEN Range(batch)
    ELSE {batch[k] : k \in {k \in 1..Len(batch) :
                              \A m \in (k + 1)..Len(batch) :
                                  batch[m].objectID # batch[k].objectID}}

SaveObjects(idx, batch) ==
    {r \in idx : r.objectID \notin ObjectIDs(batch)} \cup LastWins(batch)

DeleteObjects(idx, ids) == {r \in idx : r.objectID \notin ids}

ClearObjectsKeeps(idx) == idx

ClearObjects(idx) == {}

\* filters: `product_id:${productId}`: the records whose product_id field is
\* productId (the engine is taken to filter on the field as the code expects)
Matching(idx, pid) == {r \in idx : r.product_id = pid}

RECURSIVE DropK(_, _)
DropK(S, k) == IF k = 0 THEN {S} ELSE UNION {DropK(S \ {x}, k - 1) : x \in S}

\* the pages a search over the matching set S can return
Pages(S) ==
    IF Cardinality(S) <= hitsPerPage THEN {S}
    ELSE DropK(S, Cardinality(S) - hitsPerPage)

\* one engine call as the log keeps it
Call(name, objects, ok) == [call |-> name, objects |-> objects, ok |-> ok]

NoObjects == <<>>

\* one catalog call as the log keeps it
Fetch(name, ok) == [call |-> name, ok |-> ok]

\* validRecords.slice(i, i + batchSize)
SliceOffByOne(s, from, to) == SubSeq(s, from + 1, Min(to + 1, Len(s)))

Slice(s, from, to) == SubSeq(s, from + 1, Min(to, Len(s)))

(***************************************************************************)
(* State after construction: an empty index, any catalog, nothing running. *)
(***************************************************************************)
NoOp == [name |-> "none", script |-> "", adminKey |-> FALSE, pid |-> "",
         product |-> NoProduct]

\* adminKey: whether MEDUSA_ADMIN_API_KEY is set in the script's environment
Operation(name, script, adminKey, pid, product) ==
    [name |-> name, script |-> script, adminKey |-> adminKey, pid |-> pid,
     product |-> product]

Init ==
    /\ catalog \in Catalogs
    /\ index = {}
    /\ pc = "idle"
    /\ op = NoOp
    /\ products = <<>>
    /\ records = <<>>
    /\ validRecords = <<>>
    /\ i = 0
    /\ hits = {}
    /\ calls = <<>>
    /\ fetches = <<>>
    /\ result = "none"
    /\ index0 = {}
    /\ opsLeft = MaxOps

\* what every operation sets when it starts
Begin(o) ==
    /\ pc = "idle"
    /\ opsLeft > 0
    /\ opsLeft' = opsLeft - 1
    /\ op' = o
    /\ calls' = <<>>
    /\ fetches' = <<>>
    /\ index0' = index
    /\ hits' = {}

\* an exception reaches the operation's outermost handler: the subscriber's
\* catch logs it and returns; every other operation rethrows (the script
\* exits with status 1)
ThrownRethrows ==
    /\ pc' = "done"
    /\ result' = "error"

Thrown ==
    /\ pc' = "done"
    /\ result' = IF op'.name = "handleProductDeleted" THEN "logged" ELSE "error"

Returned ==
    /\ pc' = "done"
    /\ result' = "ok"

Goto(label) ==
    /\ pc' = label
    /\ result' = "none"

(***************************************************************************)
(* AlgoliaService.indexAlgoliaRecords                                      *)
(***************************************************************************)
\* indexAlgoliaRecords returned normally: the sync script goes on to its
\* verification search, every other caller returns
ReturnFromIndexing ==
    IF op'.name = "sync" THEN Goto("sync_verify") ELSE Returned

\* the part before the batch loop: the empty-input return and the validation
EnterIndexing(recs) ==
    LET valid == SelectSeq(recs, validateAlgoliaRecord)
    IN  /\ records' = recs
        /\ validRecords' = valid
        /\ i' = 0
        /\ IF Len(recs) = 0 \/ Len(valid) = 0
           THEN ReturnFromIndexing
           ELSE Goto("save")

\* the catch around saveObjects: log and rethrow
BatchFailedContinues(from, valid) ==
    IF from + batchSize < Len(valid) THEN "save" ELSE "return"

BatchFailed(from, valid) == "throw"

SaveBatchOk ==
    /\ pc = "save"
    /\ UNCHANGED <<catalog, op, products, records, validRecords, hits,
                   fetches, index0, opsLeft>>
    /\ LET batch == Slice(validRecords, i, i + batchSize)
       IN  /\ index' = SaveObjects(index, batch)
           /\ calls' = Append(calls, Call("saveObjects", batch, TRUE))
    /\ i' = i + batchSize
    /\ IF i + batchSize < Len(validRecords)
       THEN Goto("save")
       ELSE ReturnFromIndexing

SaveBatchFail ==
    /\ pc = "save"
    /\ UNCHANGED <<catalog, index, op, products, records, validRecords, hits,
                   fetches, index0, opsLeft>>
    /\ LET batch == Slice(validRecords, i, i + batchSize)
       IN  calls' = Append(calls, Call("saveObjects", batch, FALSE))
    /\ i' = i + batchSize
    /\ LET next == BatchFailed(i, validRecords)
       IN  IF next = "throw" THEN Thrown
           ELSE IF next = "save" THEN Goto("save")
           ELSE ReturnFromIndexing

\* a caller hands records straight to indexAlgoliaRecords
DirectRecords ==
    {Rec("p1_A", "p1", "A", "T1"), Rec("", "p1", "A", "T1"),
     Rec("p1_B", "p1", "B", ""), Rec("p2_A", "p2", "A", "T2")}

DirectInputs == UNION {[1..n -> DirectRecords] : n \in 0..MaxDirect}

StartIndexAlgoliaRecords ==
    /\ \E recs \in DirectInputs :
          /\ Begin(Operation("indexAlgoliaRecords", "", FALSE, "", NoProduct))
          /\ EnterIndexing(recs)
    /\ products' = <<>>
    /\ UNCHANGED <<catalog, index>>

(***************************************************************************)
(* AlgoliaService.indexProducts                                            *)
(***************************************************************************)
\* the body of indexProducts for the product list ps
EnterIndexProducts(ps) ==
    LET recs == IndexProductsRecords(ps)
    IN  /\ products' = ps
        /\ IF Len(ps) = 0 \/ Len(recs) = 0
           THEN /\ records' = recs
                /\ validRecords' = <<>>
                /\ i' = 0
                /\ Returned
           ELSE EnterIndexing(recs)

StartIndexProducts ==
    /\ Begin(Operation("indexProducts", "", FALSE, "", NoProduct))
    /\ EnterIndexProducts(CatalogList(catalog))
    /\ UNCHANGED <<catalog, index>>

(***************************************************************************)
(* AlgoliaService.deleteProduct and updateProduct                          *)
(***************************************************************************)
\* deleteProduct returned normally: updateProduct goes on to
\* indexProducts([product]), every other caller returns
ReturnFromDelete ==
    IF op'.name = "updateProduct"
    THEN EnterIndexProducts(<<op'.product>>)
    ELSE /\ Returned
         /\ UNCHANGED <<products, records, validRecords, i>>

\* the productId check that opens deleteProduct
EnterDelete(pid) ==
    IF pid = "" THEN Thrown ELSE Goto("del_search")

StartDeleteProduct ==
    /\ \E pid \in ProductIds \cup {""} :
          /\ Begin(Operation("deleteProduct", "", FALSE, pid, NoProduct))
          /\ EnterDelete(pid)
    /\ UNCHANGED <<catalog, index, products, records, validRecords, i>>

\* the caller hands over a product of the catalog, with or without its id
StartUpdateProduct ==
    /\ \E pid \in ProductIds, hasId \in BOOLEAN :
          /\ catalog[pid] # NoProduct
          /\ LET id == IF hasId THEN pid ELSE ""
                 product == [catalog[pid] EXCEPT !.id = id]
             IN  /\ Begin(Operation("updateProduct", "", FALSE, id, product))
                 /\ IF validateProduct(product)
                    THEN EnterDelete(id)
                    ELSE Thrown
    /\ UNCHANGED <<catalog, index, products, records, validRecords, i>>

DeleteSearchOk ==
    /\ pc = "del_search"
    /\ UNCHANGED <<catalog, index, op, fetches, index0, opsLeft>>
    /\ \E page \in Pages(Matching(index, op.pid)) :
          /\ hits' = page
          /\ calls' = Append(calls, Call("searchSingleIndex", NoObjects, TRUE))
          /\ IF page = {}
             THEN ReturnFromDelete
             ELSE /\ Goto("del_delete")
                  /\ UNCHANGED <<products, records, validRecords, i>>

DeleteSearchFail ==
    /\ pc = "del_search"
    /\ UNCHANGED <<catalog, index, op, products, records, validRecords, i,
                   hits, fetches, index0, opsLeft>>
    /\ calls' = Append(calls, Call("searchSingleIndex", NoObjects, FALSE))
    /\ Thrown

DeleteObjectsOk ==
    /\ pc = "del_delete"
    /\ UNCHANGED <<catalog, op, hits, fetches, index0, opsLeft>>
    /\ index' = DeleteObjects(index, {h.objectID : h \in hits})
    /\ calls' = Append(calls, Call("deleteObjects", NoObjects, TRUE))
    /\ ReturnFromDelete

DeleteObjectsFailGoesOn ==
    /\ pc = "del_delete"
    /\ UNCHANGED <<catalog, index, op, hits, fetches, index0, opsLeft>>
    /\ calls' = Append(calls, Call("deleteObjects", NoObjects, FALSE))
    /\ ReturnFromDelete

DeleteObjectsFail ==
    /\ pc = "del_delete"
    /\ UNCHANGED <<catalog, index, op, products, records, validRecords, i,
                   hits, fetches, index0, opsLeft>>
    /\ calls' = Append(calls, Call("deleteObjects", NoObjects, FALSE))
    /\ Thrown

(***************************************************************************)
(* ProductSubscriber: the six event handlers.                              *)
(***************************************************************************)
\* the events whose handler only logs the id (the refetch and the
\* updateProduct call are commented out in the source)
LoggedEvents ==
    {"product.created", "product.updated", "product-variant.created",
     "product-variant.updated", "product-variant.deleted"}

HandleLoggedEvent ==
    /\ \E ev \in LoggedEvents, pid \in ProductIds :
          /\ Begin(Operation(ev, "", FALSE, pid, NoProduct))
          /\ Returned
    /\ UNCHANGED <<catalog, index, products, records, validRecords, i>>

StartHandleProductDeleted ==
    /\ \E pid \in ProductIds :
          /\ Begin(Operation("handleProductDeleted", "", FALSE, pid, NoProduct))
          /\ EnterDelete(pid)
    /\ UNCHANGED <<catalog, index, products, records, validRecords, i>>

(***************************************************************************)
(* syncPublishedProducts                                                   *)
(***************************************************************************)
StartSync ==
    /\ \E script \in Scripts, adminKey \in BOOLEAN :
          /\ Begin(Operation("sync", script, adminKey, "", NoProduct))
          /\ Goto(IF script = "sync-products" THEN "sync_health" ELSE "sync_store")
    /\ products' = <<>>
    /\ records' = <<>>
    /\ validRecords' = <<>>
    /\ i' = 0
    /\ UNCHANGED <<catalog, index>>

\* a step of the script that changes only its position and its logs
SyncFrame == UNCHANGED <<catalog, index, op, records, validRecords, i, hits,
                         index0, opsLeft>>

HealthOk ==
    /\ pc = "sync_health"
    /\ SyncFrame
    /\ fetches' = Append(fetches, Fetch("health", TRUE))
    /\ Goto("sync_store")
    /\ UNCHANGED <<products, calls>>

HealthFail ==
    /\ pc = "sync_health"
    /\ SyncFrame
    /\ fetches' = Append(fetches, Fetch("health", FALSE))
    /\ Thrown
    /\ UNCHANGED <<products, calls>>

\* the step that follows the catalog fetch
AfterFetch == "init_get"

StoreFetchOk ==
    /\ pc = "sync_store"
    /\ SyncFrame
    /\ fetches' = Append(fetches, Fetch("store", TRUE))
    /\ products' = CatalogList(catalog)
    /\ Goto(AfterFetch)
    /\ UNCHANGED calls

\* the catch of the store fetch: the admin API when MEDUSA_ADMIN_API_KEY is
\* set, else rethrow
StoreFailedGoesOn(adminKey) == IF adminKey THEN "sync_admin" ELSE AfterFetch

StoreFailed(adminKey) == IF adminKey THEN "sync_admin" ELSE "throw"

StoreFetchFail ==
    /\ pc = "sync_store"
    /\ SyncFrame
    /\ fetches' = Append(fetches, Fetch("store", FALSE))
    /\ LET next == StoreFailed(op.adminKey)
       IN  IF next = "throw" THEN Thrown ELSE Goto(next)
    /\ UNCHANGED <<products, calls>>

AdminFetchOk ==
    /\ pc = "sync_admin"
    /\ SyncFrame
    /\ fetches' = Append(fetches, Fetch("admin", TRUE))
    /\ products' = CatalogList(catalog)
    /\ Goto(AfterFetch)
    /\ UNCHANGED calls

AdminFetchFail ==
    /\ pc = "sync_admin"
    /\ SyncFrame
    /\ fetches' = Append(fetches, Fetch("admin", FALSE))
    /\ Thrown
    /\ UNCHANGED <<products, calls>>

\* initializeIndex: testConnection (getSettings), then setSettings
GetSettingsOk ==
    /\ pc = "init_get"
    /\ SyncFrame
    /\ calls' = Append(calls, Call("getSettings", NoObjects, TRUE))
    /\ Goto("init_set")
    /\ UNCHANGED <<products, fetches>>

GetSettingsFail ==
    /\ pc = "init_get"
    /\ SyncFrame
    /\ calls' = Append(calls, Call("getSettings", NoObjects, FALSE))
    /\ Thrown
    /\ UNCHANGED <<products, fetches>>

\* the step that follows initializeIndex in the script
AfterInitializeIndexSkipsClear == "sync_build"

AfterInitializeIndex == "clear"

SetSettingsOk ==
    /\ pc = "init_set"
    /\ SyncFrame
    /\ calls' = Append(calls, Call("setSettings", NoObjects, TRUE))
    /\ Goto(AfterInitializeIndex)
    /\ UNCHANGED <<products, fetches>>

SetSettingsFail ==
    /\ pc = "init_set"
    /\ SyncFrame
    /\ calls' = Append(calls, Call("setSettings", NoObjects, FALSE))
    /\ Thrown
    /\ UNCHANGED <<products, fetches>>

\* clearIndex
ClearOk ==
    /\ pc = "clear"
    /\ index' = ClearObjects(index)
    /\ calls' = Append(calls, Call("clearObjects", NoObjects, TRUE))
    /\ Goto("sync_build")
    /\ UNCHANGED <<catalog, op, products, records, validRecords, i, hits,
                   fetches, index0, opsLeft>>

ClearFail ==
    /\ pc = "clear"
    /\ SyncFrame
    /\ calls' = Append(calls, Call("clearObjects", NoObjects, FALSE))
    /\ Thrown
    /\ UNCHANGED <<products, fetches>>

\* the loop that fills algoliaRecords, then the call of indexAlgoliaRecords up
\* to its batch loop
SyncBuild ==
    /\ pc = "sync_build"
    /\ UNCHANGED <<catalog, index, op, products, hits, calls, fetches, index0,
                   opsLeft>>
    /\ IF SyncTransformThrows(products)
       THEN /\ Thrown
            /\ UNCHANGED <<records, validRecords, i>>
       ELSE EnterIndexing(SyncRecords(op.script, products))

\* the verification search that ends the script; sync-products.ts searches a
\* second time, for the first product's title, when it fetched any product
VerifyOk ==
    /\ pc \in {"sync_verify", "sync_verify2"}
    /\ SyncFrame
    /\ calls' = Append(calls, Call("searchSingleIndex", NoObjects, TRUE))
    /\ IF pc = "sync_verify" /\ op.script = "sync-products" /\ Len(products) > 0
       THEN Goto("sync_verify2")
       ELSE Returned
    /\ UNCHANGED <<products, fetches>>

VerifyFail ==
    /\ pc \in {"sync_verify", "sync_verify2"}
    /\ SyncFrame
    /\ calls' = Append(calls, Call("searchSingleIndex", NoObjects, FALSE))
    /\ Thrown
    /\ UNCHANGED <<products, fetches>>

(***************************************************************************)
(* The environment: the operation's caller takes the outcome, and the      *)
(* catalog's owner changes a product between operations.                   *)
(***************************************************************************)
Finish ==
    /\ pc = "done"
    /\ pc' = "idle"
    /\ op' = NoOp
    /\ products' = <<>>
    /\ records' = <<>>
    /\ validRecords' = <<>>
    /\ i' = 0
    /\ hits' = {}
    /\ calls' = <<>>
    /\ fetches' = <<>>
    /\ result' = "none"
    /\ index0' = index
    /\ UNCHANGED <<catalog, index, opsLeft>>

CatalogChange ==
    /\ pc = "idle"
    /\ opsLeft > 0
    /\ \E pid \in ProductIds :
          \E np \in ProductsOf(pid) \cup {NoProduct} :
             /\ np # catalog[pid]
             /\ catalog' = [catalog EXCEPT ![pid] = np]
    /\ UNCHANGED <<index, pc, op, products, records, validRecords, i, hits,
                   calls, fetches, result, index0, opsLeft>>

Next ==
    \/ StartSync
    \/ HealthOk
    \/ HealthFail
    \/ StoreFetchOk
    \/ StoreFetchFail
    \/ AdminFetchOk
    \/ AdminFetchFail
    \/ GetSettingsOk
    \/ GetSettingsFail
    \/ SetSettingsOk
    \/ SetSettingsFail
    \/ ClearOk
    \/ ClearFail
    \/ SyncBuild
    \/ VerifyOk
    \/ VerifyFail
    \/ StartIndexAlgoliaRecords
    \/ StartIndexProducts
    \/ SaveBatchOk
    \/ SaveBatchFail
    \/ StartDeleteProduct
    \/ StartUpdateProduct
    \/ StartHandleProductDeleted
    \/ DeleteSearchOk
    \/ DeleteSearchFail
    \/ DeleteObjectsOk
    \/ DeleteObjectsFail
    \/ HandleLoggedEvent
    \/ Finish
    \/ CatalogChange

Spec == Init /\ [][Next]_vars

(***************************************************************************)
(* Bulk population with record lists long enough for the batch loop and    *)
(* the search page to matter: indexAlgoliaRecords called on an empty index *)
(* with n records of one product, then deleteProduct for that product.     *)
(***************************************************************************)
BatchSizes ==
    {0, 1, batchSize - 1, batchSize, batchSize + 1, 2 * batchSize,
     2 * batchSize + 1, MaxBatchRecords - 1, MaxBatchRecords}

\* which records of the input fail validation
BatchPatterns == {"all valid", "first without objectID", "even without title",
                  "none valid"}

BatchRecord(pattern, k) ==
    Rec(IF pattern = "first without objectID" /\ k = 1
        THEN "" ELSE "p1_" \o ToString(k),
        "p1", ToString(k),
        IF \/ pattern = "none valid"
           \/ pattern = "even without title" /\ k % 2 = 0
        THEN "" ELSE "T1")

BatchInput(n, pattern) == [k \in 1..n |-> BatchRecord(pattern, k)]

InitBatch ==
    /\ Init
    /\ catalog = [p \in ProductIds |-> NoProduct]

StartBatchIndexing ==
    /\ index = {}
    /\ \E n \in BatchSizes, pattern \in BatchPatterns :
          /\ Begin(Operation("indexAlgoliaRecords", "", FALSE, "", NoProduct))
          /\ EnterIndexing(BatchInput(n, pattern))
    /\ products' = <<>>
    /\ UNCHANGED <<catalog, index>>

\* deleteProduct for the product of the batch, while the search can miss at
\* most one of its records
StartBatchDelete ==
    /\ index # {}
    /\ Cardinality(index) <= hitsPerPage + 1
    /\ Begin(Operation("deleteProduct", "", FALSE, "p1", NoProduct))
    /\ EnterDelete("p1")
    /\ UNCHANGED <<catalog, index, products, records, validRecords, i>>

NextBatch ==
    \/ StartBatchIndexing
    \/ SaveBatchOk
    \/ SaveBatchFail
    \/ StartBatchDelete
    \/ DeleteSearchOk
    \/ DeleteSearchFail
    \/ DeleteObjectsOk
    \/ DeleteObjectsFail
    \/ Finish

SpecBatch == InitBatch /\ [][NextBatch]_vars

(***************************************************************************)
(* Vocabulary of the properties.                                           *)
(***************************************************************************)
Finished(names) == pc = "done" /\ op.name \in names

IsSave(c) == c.call = "saveObjects"

HasIdAndTitle(r) == r.objectID # "" /\ r.product_title # ""

Titled(p) == p.title # ""

\* the key a writer gives the record of a (product, variant) pair
KeySeparator(script) == IF script = "sync-products" THEN "-" ELSE "_"

PairKeys(script, p) ==
    IF Len(p.variants) = 0
    THEN {p.id \o KeySeparator(script) \o "default"}
    ELSE {p.id \o KeySeparator(script) \o p.variants[k].id : k \in 1..Len(p.variants)}

\* the index holds one record per pair of the products ps, built from the
\* pair's product, and nothing else
OneRecordPerPair(script, ps) ==
    /\ \A k \in 1..Len(ps) : \A key \in PairKeys(script, ps[k]) :
          /\ Cardinality({r \in index : r.objectID = key}) = 1
          /\ \A r \in index : r.objectID = key => r.product_title = ps[k].title
    /\ \A r \in index : \E k \in 1..Len(ps) : r.objectID \in PairKeys(script, ps[k])

SyncSucceeded == Finished({"sync"}) /\ result = "ok"

\* C1 as stated: after a full resync that completed without error the index
\* holds exactly one record for every (product, variant) pair of the snapshot
\* the run fetched, and no other record.
C1_ResyncMirrorsSnapshot ==
    SyncSucceeded => OneRecordPerPair(op.script, products)

\* C1 amended: after a full resync that completed without error the index
\* holds exactly one record for every (product, variant) pair of the snapshot
\* whose product has a non-empty title, and no other record, whatever the
\* index held before; the pairs of a product without a title are dropped by
\* the record validation and have no record.
C1_ResyncMirrorsTitledSnapshot ==
    SyncSucceeded =>
        /\ OneRecordPerPair(op.script, SelectSeq(products, Titled))
        /\ \A k \in 1..Len(products) :
              ~Titled(products[k]) =>
                  \A r \in index : r.objectID \notin PairKeys(op.script, products[k])

\* a resync succeeded over an index that held a record of no snapshot pair,
\* with a titled and an untitled product in the snapshot
C1_Witness ==
    /\ SyncSucceeded
    /\ \E r \in index0 :
          \A k \in 1..Len(products) : r.objectID \notin PairKeys(op.script, products[k])
    /\ \E k \in 1..Len(products) : Titled(products[k])
    /\ \E k \in 1..Len(products) : ~Titled(products[k])

\* the records of the index that are for variant vid of product pid, whichever
\* writer keyed them
RecordsFor(pid, vid) ==
    {r \in index : \/ r.product_id = pid /\ r.variant_id = vid
                   \/ r.objectID = pid \o "_" \o vid
                   \/ r.objectID = pid \o "-" \o vid}

VariantIdsOf(p) == {p.variants[k].id : k \in 1..Len(p.variants)}

\* C2: after updateProduct(product) completed, the index holds no record for a
\* variant the product no longer has, and for each variant it has a record
\* built from the new product data, whatever records the product had before.
C2_UpdateLeavesNoOrphan ==
    (Finished({"updateProduct"}) /\ result = "ok") =>
        /\ \A vid \in VariantIds \ VariantIdsOf(op.product) :
              RecordsFor(op.pid, vid) = {}
        /\ \A vid \in VariantIdsOf(op.product) :
              \E r \in RecordsFor(op.pid, vid) :
                  r.product_title = op.product.title

\* C3: within a full resync no saveObjects call is issued before clearObjects
\* has completed.
C3_ClearBeforeUpsert ==
    op.name = "sync" =>
        \A k \in 1..Len(calls) :
            IsSave(calls[k]) =>
                \E j \in 1..(k - 1) : calls[j].call = "clearObjects" /\ calls[j].ok

\* a resync has issued an upsert
C3_Witness ==
    /\ op.name = "sync"
    /\ \E k \in 1..Len(calls) : IsSave(calls[k])

\* the store fetch failed and the admin fallback failed or is unavailable
CatalogFetchFailed ==
    /\ op.name = "sync"
    /\ \E k \in 1..Len(fetches) : fetches[k].call = "store" /\ ~fetches[k].ok
    /\ \/ ~op.adminKey
       \/ \E k \in 1..Len(fetches) : fetches[k].call = "admin" /\ ~fetches[k].ok

\* C4: when the catalog fetch of a full resync fails the run aborts, no engine
\* call has been issued and the index is unchanged.
C4_FetchFailureMutatesNothing ==
    CatalogFetchFailed =>
        /\ pc = "done"
        /\ result = "error"
        /\ calls = <<>>
        /\ index = index0

\* a resync whose fetch failed, over a non-empty index
C4_Witness ==
    /\ CatalogFetchFailed
    /\ index0 # {}

\* C5: after deleteProduct(productId) or the 'deleted' handler completed
\* without error no record with that product_id remains, the catalog was not
\* fetched, and when the search matched nothing no delete call was issued and
\* the index is unchanged.
C5_DeleteRemovesEveryRecord ==
    (Finished({"deleteProduct", "handleProductDeleted"}) /\ result = "ok") =>
        /\ Matching(index, op.pid) = {}
        /\ fetches = <<>>
        /\ hits = {} =>
              /\ \A k \in 1..Len(calls) : calls[k].call # "deleteObjects"
              /\ index = index0

\* C6: after the handler of a product created/updated event or of a variant
\* event completed, the index holds a record, built from the current product,
\* for every variant the owning product now has, and none for another variant.
C6_EventReindexesProduct ==
    (Finished(LoggedEvents) /\ validateProduct(catalog[op.pid])) =>
        /\ \A vid \in VariantIdsOf(catalog[op.pid]) :
              \E r \in RecordsFor(op.pid, vid) :
                  r.product_title = catalog[op.pid].title
        /\ \A vid \in VariantIds \ VariantIdsOf(catalog[op.pid]) :
              RecordsFor(op.pid, vid) = {}

\* the records the batch loop has sent, call by call
SentBatches == [k \in 1..Len(calls) |-> calls[k].objects]

\* C7: when a saveObjects call fails it is the last call issued, the operation
\* ends with the error and not with success, and the records of every batch
\* sent before it are in the index.
C7_BatchFailureAborts ==
    \A k \in 1..Len(calls) :
        (IsSave(calls[k]) /\ ~calls[k].ok) =>
            /\ k = Len(calls)
            /\ pc = "done"
            /\ result = "error"
            /\ \A j \in 1..(k - 1) :
                  IsSave(calls[j]) => Range(calls[j].objects) \subseteq index

\* 2500 valid records, the second batch failed: the first 1000 are in the
\* index and nothing was sent after the failure
C7_Witness ==
    /\ Len(validRecords) = 2500
    /\ Len(calls) = 2
    /\ IsSave(calls[2]) /\ ~calls[2].ok
    /\ Cardinality(index) = 1000

\* C8: indexAlgoliaRecords that returned normally has sent its n valid
\* records in ceil(n / 1000) saveObjects calls, in input order, each record in
\* exactly one batch, and no batch empty or longer than 1000.
C8_BatchesOfAThousand ==
    (Finished({"indexAlgoliaRecords"}) /\ result = "ok") =>
        LET valid == SelectSeq(records, HasIdAndTitle)
        IN  /\ Len(calls) = (Len(valid) + 999) \div 1000
            /\ \A k \in 1..Len(calls) :
                  /\ IsSave(calls[k])
                  /\ Len(calls[k].objects) >= 1
                  /\ Len(calls[k].objects) <= 1000
            /\ Flatten(SentBatches) = valid

\* 2501 records, all valid, sent in three batches
C8_Witness ==
    /\ Finished({"indexAlgoliaRecords"})
    /\ result = "ok"
    /\ Len(records) = 2501
    /\ Len(calls) = 3
    /\ Len(calls[3].objects) = 501

\* C9: every record sent to the engine, and so every record of the index, has
\* a non-empty objectID and a non-empty product_title and is one of the input
\* records unchanged; when the batch loop ran to its end every input record
\* that has both was sent.
C9_OnlyWellFormedRecordsSent ==
    /\ \A k \in 1..Len(calls) :
          IsSave(calls[k]) =>
              \A r \in Range(calls[k].objects) :
                  HasIdAndTitle(r) /\ r \in Range(records)
    /\ \A r \in index : HasIdAndTitle(r)
    /\ (pc \in {"done", "sync_verify", "sync_verify2"}
          /\ \A k \in 1..Len(calls) : IsSave(calls[k]) => calls[k].ok) =>
              \A r \in Range(records) :
                  HasIdAndTitle(r) =>
                      \E k \in 1..Len(calls) :
                          IsSave(calls[k]) /\ r \in Range(calls[k].objects)

\* an input with a record that lacks a title or an objectID next to one that
\* has both, and the batch sent
C9_Witness ==
    /\ pc = "done"
    /\ \E r \in Range(records) : ~HasIdAndTitle(r)
    /\ \E k \in 1..Len(calls) : IsSave(calls[k]) /\ calls[k].ok

\* the products a bulk population path was given
BulkInput ==
    IF op.name = "updateProduct" THEN {op.product} ELSE Range(products)

\* C10: on every bulk population path (the sync script, indexProducts,
\* updateProduct) a titled product with zero variants ends with exactly one
\* index record, keyed `{id}_default`.
C10_DefaultRecordOnEveryPath ==
    (/\ Finished({"sync", "indexProducts", "updateProduct"})
     /\ \A k \in 1..Len(calls) : calls[k].ok
     /\ \A k \in 1..Len(fetches) : fetches[k].ok) =>
        \A p \in BulkInput :
            (Titled(p) /\ Len(p.variants) = 0) =>
                Cardinality({r \in index : r.objectID = p.id \o "_default"}) = 1

\* C11: after a full resync that completed without error, every (product,
\* variant) pair of the snapshot whose product has a title (the `default`
\* pseudo-variant for a product without variants) has exactly one record whose
\* objectID is `{P.id}_{V.id}`, and no two records of the index share an
\* objectID.
C11_CompositeIdsUnique ==
    SyncSucceeded =>
        /\ \A k \in 1..Len(products) :
              Titled(products[k]) =>
                  \A key \in PairKeys("sync-published", products[k]) :
                      Cardinality({r \in index : r.objectID = key}) = 1
        /\ \A r1, r2 \in index : r1 # r2 => r1.objectID # r2.objectID

(***************************************************************************)
(* The value fields of a record.  A JavaScript value is a tagged record:   *)
(* a number (integers here), NaN, a string, or undefined (a missing field, *)
(* null and undefined behave alike in the code below).                     *)
(***************************************************************************)
Undefined == [t |-> "undefined", n |-> 0, s |-> ""]

NaN == [t |-> "NaN", n |-> 0, s |-> ""]

Num(n) == [t |-> "number", n |-> n, s |-> ""]

Str(s) == [t |-> "string", n |-> 0, s |-> s]

\* typeof value === "number" (NaN is a number)
IsNumber(v) == v.t \in {"number", "NaN"}

\* the truthiness the operators || and ! test
Truthy(v) ==
    \/ v.t = "number" /\ v.n # 0
    \/ v.t = "string" /\ v.s # ""

\* a || b
Or(a, b) == IF Truthy(a) THEN a ELSE b

\* String(v) for the values that get concatenated
JsString(v) ==
    IF v.t = "string" THEN v.s
    ELSE IF v.t = "number" THEN ToString(v.n)
    ELSE IF v.t = "NaN" THEN "NaN" ELSE "undefined"

\* a + b: addition of numbers, concatenation as soon as one side is a string
Plus(a, b) ==
    IF a.t = "string" \/ b.t = "string" THEN Str(JsString(a) \o JsString(b))
    ELSE IF a.t = "number" /\ b.t = "number" THEN Num(a.n + b.n)
    ELSE NaN

\* Number.parseFloat on the numeric strings of the model; any other string
\* ("abc", "") is not a number
parseFloat(s) ==
    IF s = "0" THEN Num(0)
    ELSE IF s = "7" THEN Num(7)
    ELSE IF s = "50" THEN Num(50)
    ELSE IF s = "100" THEN Num(100)
    ELSE IF s = "10000" THEN Num(10000)
    ELSE IF s = "-3" THEN Num(0 - 3)
    ELSE NaN

\* AlgoliaService.safeParseNumber
safeParseNumber(value) ==
    IF IsNumber(value) THEN value
    ELSE IF value.t = "string"
         THEN LET parsed == parseFloat(value.s)
              IN  IF parsed.t = "NaN" THEN Num(0) ELSE parsed
         ELSE Num(0)

\* new Date().toISOString() read at wall-clock time now
NowISO(now) == Str("now+" \o ToString(now))

ValidDate == "2024-01-01T00:00:00.000Z"

\* !isNaN(new Date(value).getTime()) for a string
DateParses(s) == s = ValidDate

\* AlgoliaService.safeParseDate (the catalog API delivers dates as strings)
safeParseDate(value, now) ==
    IF value.t = "string"
    THEN IF DateParses(value.s) THEN value ELSE NowISO(now)
    ELSE NowISO(now)

(***************************************************************************)
(* The source of one record: a product, one of its variants, and what the  *)
(* inventory endpoint answers for that variant.                            *)
(***************************************************************************)
\* variant.prices?.[0]?.amount
Amounts == {Undefined, Num(1999), Num(0 - 100), Str("abc")}

\* variant.inventory_quantity, the direct quantity field
DirectQuantities == {Undefined, Num(5), Num(0 - 1), Str("7")}

\* one entry of variant.inventory_items, or of the endpoint's inventory list
Item(stocked, available) ==
    [stocked_quantity |-> stocked, available_quantity |-> available]

\* variant.inventory_items, the nested list
NestedItems == {<<>>, <<Item(Num(3), Undefined)>>}

SourceVariants ==
    [id : {"A"}, amount : Amounts, inventory_quantity : DirectQuantities,
     inventory_items : NestedItems]

SourceTitle == "Blue T-Shirt!!"

SourceProducts ==
    [id : {"p1"}, title : {SourceTitle},
     handle : {Undefined, Str("custom-handle")},
     created_at : {Undefined, Str(ValidDate), Str("not a date")},
     updated_at : {Undefined, Str(ValidDate)}]

\* response.data of GET /admin/variants/:id/inventory: variant is whether
\* response.data.variant is there, inventory is response.data.variant.inventory
\* (an absent list is the empty one: both fail the length test)
Payload(variant, inventory) == [variant |-> variant, inventory |-> inventory]

Payloads ==
    {Payload(FALSE, <<>>),
     Payload(TRUE, <<>>),
     Payload(TRUE, <<Item(Num(9), Undefined)>>),
     Payload(TRUE, <<Item(Num(3), Undefined), Item(Undefined, Num(4))>>),
     Payload(TRUE, <<Item(Num(0 - 2), Undefined)>>),
     Payload(TRUE, <<Item(Str("5"), Undefined)>>)}

Sources == [product : SourceProducts, variant : SourceVariants, inventory : Payloads]

\* inventory.inventory.reduce((sum, item) => sum + (item.stocked_quantity ||
\* item.available_quantity || 0), 0)
RECURSIVE Reduce(_, _)
Reduce(items, sum) ==
    IF items = <<>> THEN sum
    ELSE Reduce(Tail(items),
                Plus(sum, Or(Or(Head(items).stocked_quantity,
                                Head(items).available_quantity), Num(0))))

\* getVariantInventoryQuantity when the request was answered: a missing
\* response.data.variant raises a TypeError that the catch turns into 0
InventoryTotal(payload) ==
    IF ~payload.variant THEN Num(0)
    ELSE IF Len(payload.inventory) > 0 THEN Reduce(payload.inventory, Num(0))
    ELSE Num(0)

\* getVariantInventoryQuantity when the request failed: the catch returns 0
InventoryUnavailable == Num(0)

\* AlgoliaService.transformProductToRecord, with the value fields
transformProductToRecordFields(product, variant, now) ==
    [objectID |-> product.id \o "_" \o variant.id,
     product_id |-> product.id,
     variant_id |-> variant.id,
     product_title |-> product.title,
     price |-> Or(safeParseNumber(variant.amount), Num(0)),
     stocked_quantity |-> Or(safeParseNumber(variant.inventory_quantity), Num(0)),
     created_at |-> safeParseDate(product.created_at, now),
     updated_at |-> safeParseDate(product.updated_at, now),
     handle |-> Or(product.handle, Str("")),
     inventory_debug |-> FALSE]

\* sync-products.ts holds an earlier revision of the script too, which takes
\* the quantity from the variant's direct field and asks no endpoint
FieldScripts == Scripts \cup {"sync-products-direct"}

\* the revisions in sync-products.ts: hyphen keys, no ids on the record,
\* product_handle and no handle field
HyphenKeyed(script) == script \in {"sync-products", "sync-products-direct"}

\* the script's record of one (product, variant) pair, with the value fields;
\* inventory_debug is whether the record carries the _inventory_debug note of
\* the revisions that look the quantity up
SyncVariantFields(script, product, variant, stockedQuantity) ==
    [objectID |-> product.id \o (IF HyphenKeyed(script) THEN "-" ELSE "_")
                             \o variant.id,
     product_id |-> IF HyphenKeyed(script) THEN "" ELSE product.id,
     variant_id |-> IF HyphenKeyed(script) THEN "" ELSE variant.id,
     product_title |-> product.title,
     price |-> Or(variant.amount, Num(0)),
     stocked_quantity |-> stockedQuantity,
     created_at |-> product.created_at,
     updated_at |-> product.updated_at,
     handle |-> IF HyphenKeyed(script) THEN Undefined
                ELSE Or(product.handle, Str("")),
     inventory_debug |-> script # "sync-products-direct"]

\* the wall clock: every operation starts later than the one before it
Clock(left) == MaxOps - left

(***************************************************************************)
(* Record building.  catalog is the source, unchanged throughout; an       *)
(* operation either transforms the pair with the service, or runs the pair *)
(* through the sync script, whose engine and catalog calls all succeed:    *)
(* the inventory lookup is the one call left to succeed or fail.           *)
(***************************************************************************)
InitFields ==
    /\ catalog \in Sources
    /\ index = {}
    /\ pc = "idle"
    /\ op = NoOp
    /\ products = <<>>
    /\ records = <<>>
    /\ validRecords = <<>>
    /\ i = 0
    /\ hits = {}
    /\ calls = <<>>
    /\ fetches = <<>>
    /\ result = "none"
    /\ index0 = {}
    /\ opsLeft = MaxOps

\* indexProducts for the pair, up to the record it sends
StartTransform ==
    /\ Begin(Operation("transformProductToRecord", "", FALSE, catalog.product.id,
                       NoProduct))
    /\ records' = <<transformProductToRecordFields(catalog.product, catalog.variant,
                                                   Clock(opsLeft'))>>
    /\ Returned
    /\ UNCHANGED <<catalog, index, products, validRecords, i>>

\* the script up to its record loop: the fetch, initializeIndex, clearIndex;
\* the earlier revision builds its record without a lookup
StartSyncFields ==
    /\ \E script \in FieldScripts :
          /\ Begin(Operation("sync", script, FALSE, "", NoProduct))
          /\ IF script = "sync-products-direct"
             THEN /\ records' = <<SyncVariantFields(script, catalog.product,
                                     catalog.variant,
                                     Or(catalog.variant.inventory_quantity, Num(0)))>>
                  /\ Goto("save")
             ELSE /\ records' = <<>>
                  /\ Goto("lookup")
    /\ index' = ClearObjects(index)
    /\ UNCHANGED <<catalog, products, validRecords, i>>

\* one turn of the record loop, the inventory endpoint answering
LookupAnswered ==
    /\ pc = "lookup"
    /\ fetches' = Append(fetches, Fetch("inventory", TRUE))
    /\ records' = <<SyncVariantFields(op.script, catalog.product, catalog.variant,
                                      InventoryTotal(catalog.inventory))>>
    /\ Goto("save")
    /\ UNCHANGED <<catalog, index, op, products, validRecords, i, hits, calls,
                   index0, opsLeft>>

\* one turn of the record loop, the request to the inventory endpoint failing
LookupFailed ==
    /\ pc = "lookup"
    /\ fetches' = Append(fetches, Fetch("inventory", FALSE))
    /\ records' = <<SyncVariantFields(op.script, catalog.product, catalog.variant,
                                      InventoryUnavailable)>>
    /\ Goto("save")
    /\ UNCHANGED <<catalog, index, op, products, validRecords, i, hits, calls,
                   index0, opsLeft>>

\* indexAlgoliaRecords for the records of the loop
SaveRecords ==
    /\ pc = "save"
    /\ validRecords' = SelectSeq(records, validateAlgoliaRecord)
    /\ index' = SaveObjects(index, validRecords')
    /\ calls' = Append(calls, Call("saveObjects", validRecords', TRUE))
    /\ Returned
    /\ UNCHANGED <<catalog, op, products, records, i, hits, fetches, index0,
                   opsLeft>>

NextFields ==
    \/ StartTransform
    \/ StartSyncFields
    \/ LookupAnswered
    \/ LookupFailed
    \/ SaveRecords
    \/ Finish

SpecFields == InitFields /\ [][NextFields]_vars

(***************************************************************************)
(* Properties of the record fields.                                        *)
(***************************************************************************)
\* the index was left by a completed run of the script over the same source
PreviousRunOf(script) ==
    /\ index0 # {}
    /\ \A r \in index0 :
          [r EXCEPT !.stocked_quantity = Undefined]
              = SyncVariantFields(script, catalog.product, catalog.variant, Undefined)

\* C12: a full resync that completed right after a completed run of the same
\* script against the same, unchanged source leaves the index with the same
\* set of records as the first run: same ids, same field values, created_at,
\* updated_at and stocked_quantity included.
C12_ResyncIdempotent ==
    (SyncSucceeded /\ PreviousRunOf(op.script)) => index = index0

(***************************************************************************)
(* Search.  A text that reaches a filter expression is a sequence of       *)
(* tokens, so that a caller's value can carry quotes, operators and        *)
(* parentheses of its own; the empty sequence is the empty string, which   *)
(* the code's tests treat like a missing value.                            *)
(***************************************************************************)
Q == "\""

NoText == <<>>

\* Number.MAX_SAFE_INTEGER, carried by its decimal text
MAX_SAFE_INTEGER == [t |-> "number", n |-> 0, s |-> "9007199254740991"]

\* the text of a number inside a template string
NumberText(v) == IF v = MAX_SAFE_INTEGER THEN v.s ELSE JsString(v)

\* array.join(separator) for an array of token sequences
RECURSIVE Join(_, _)
Join(parts, separator) ==
    IF parts = <<>> THEN <<>>
    ELSE IF Len(parts) = 1 THEN Head(parts)
    ELSE Head(parts) \o <<separator>> \o Join(Tail(parts), separator)

\* string.split(",")
RECURSIVE Split(_, _)
Split(text, current) ==
    IF text = <<>> THEN <<current>>
    ELSE IF Head(text) = "," THEN <<current>> \o Split(Tail(text), <<>>)
    ELSE Split(Tail(text), Append(current, Head(text)))

\* SearchFilters as search() receives them
Filters(category, currency_code, price_min, price_max, in_stock, tags) ==
    [category |-> category, currency_code |-> currency_code,
     price_min |-> price_min, price_max |-> price_max, in_stock |-> in_stock,
     tags |-> tags]

NoFilters == Filters(NoText, NoText, Undefined, Undefined, FALSE, <<>>)

\* the filter search() pushes whatever the caller supplied
PublishedFilterDropped == <<>>

PublishedFilter == <<<<"status:published">>>>

\* AlgoliaService.search: filterArray
filterArray(filters) ==
    (IF filters.category # NoText
     THEN <<<<"categories:", Q>> \o filters.category \o <<Q>>>> ELSE <<>>)
    \o
    (IF filters.currency_code # NoText
     THEN <<<<"currency_code:">> \o filters.currency_code>> ELSE <<>>)
    \o
    (IF filters.price_min # Undefined \/ filters.price_max # Undefined
     THEN <<<<"price:", NumberText(Or(filters.price_min, Num(0))), "TO",
              NumberText(Or(filters.price_max, MAX_SAFE_INTEGER))>>>>
     ELSE <<>>)
    \o
    (IF filters.in_stock THEN <<<<"stocked_quantity", ">", "0">>>> ELSE <<>>)
    \o
    (IF Len(filters.tags) > 0
     THEN <<<<"(">>
            \o Join([k \in 1..Len(filters.tags) |->
                        <<"tags:", Q>> \o filters.tags[k] \o <<Q>>], "OR")
            \o <<")">>>>
     ELSE <<>>)
    \o
    PublishedFilter

\* searchParams of the searchSingleIndex call
SearchParams(query, filters, page, limit) ==
    [query |-> query, page |-> page, hitsPerPage |-> limit,
     filters |-> Join(filterArray(filters), "AND")]

\* The engine's reading of a filter expression: quotes delimit a string, AND
\* outside strings and parentheses separates the top-level conjuncts, and an
\* expression with an unclosed string, unbalanced parentheses or an empty
\* conjunct is rejected.  The conjuncts of a rejected expression are <<>>.
RECURSIVE Scan(_, _, _, _, _)
Scan(tokens, depth, quoted, current, done) ==
    IF tokens = <<>>
    THEN IF depth = 0 /\ ~quoted /\ current # <<>>
         THEN Append(done, current) ELSE <<>>
    ELSE LET h == Head(tokens)
             rest == Tail(tokens)
         IN  IF h = Q THEN Scan(rest, depth, ~quoted, Append(current, h), done)
             ELSE IF quoted THEN Scan(rest, depth, quoted, Append(current, h), done)
             ELSE IF h = "(" THEN Scan(rest, depth + 1, quoted, Append(current, h), done)
             ELSE IF h = ")"
                  THEN IF depth = 0 THEN <<>>
                       ELSE Scan(rest, depth - 1, quoted, Append(current, h), done)
             ELSE IF h = "AND" /\ depth = 0
                  THEN IF current = <<>> THEN <<>>
                       ELSE Scan(rest, depth, quoted, <<>>, Append(done, current))
             ELSE Scan(rest, depth, quoted, Append(current, h), done)

Conjuncts(expression) == Scan(expression, 0, FALSE, <<>>, <<>>)

Accepted(expression) == Conjuncts(expression) # <<>>

\* a ?? b
Coalesce(a, b) == IF a = Undefined THEN b ELSE a

\* the response of searchSingleIndex: the fields the engine may leave out
\* are Undefined
EngineResponses ==
    [hits : {<<>>, <<"hit">>},
     nbHits : {Undefined, Num(1)},
     page : {Undefined, Num(0)},
     nbPages : {Undefined, Num(1)},
     hitsPerPage : {Undefined, Num(20)},
     processingTimeMS : {Undefined, Num(3)}]

\* AlgoliaService.search: the returned AlgoliaSearchResponse (the engine
\* echoes the query)
SearchResult(results, query, limit) ==
    [hits |-> results.hits,
     nbHits |-> Coalesce(results.nbHits, Num(0)),
     page |-> Coalesce(results.page, Num(0)),
     nbPages |-> Coalesce(results.nbPages, Num(0)),
     hitsPerPage |-> Coalesce(results.hitsPerPage, Num(limit)),
     processingTimeMS |-> results.processingTimeMS,
     query |-> query]

\* AlgoliaService.search: the catch rethrows
SearchFailedReturnsEmpty == "empty"

SearchFailed == "throw"

(***************************************************************************)
(* The search routes.  A request is the route and its query-string         *)
(* parameters; a parameter that is not given is "" (or the empty text).    *)
(***************************************************************************)
Request(route, q, category, currency_code, price_min, price_max, in_stock, tags, limit) ==
    [name |-> route, q |-> q, category |-> category,
     currency_code |-> currency_code, price_min |-> price_min,
     price_max |-> price_max, in_stock |-> in_stock, tags |-> tags,
     limit |-> limit]

\* Number.parseInt on the limits of the model
parseInt(s) == IF s = "5" THEN 5 ELSE 20

\* a || b for query-string parameters
Default(s, d) == IF s = "" THEN d ELSE s

\* the SearchFilters a route hands to search()
RouteFilters(req) ==
    IF req.name = "admin/search"
    THEN Filters(req.category, req.currency_code,
                 IF req.price_min # "" THEN parseFloat(req.price_min) ELSE Undefined,
                 IF req.price_max # "" THEN parseFloat(req.price_max) ELSE Undefined,
                 req.in_stock = "true",
                 IF req.tags # NoText THEN Split(req.tags, <<>>) ELSE <<>>)
    ELSE IF req.name = "admin/search/price"
    THEN Filters(NoText, NoText, parseFloat(Default(req.price_min, "0")),
                 parseFloat(Default(req.price_max, "10000")), FALSE, <<>>)
    ELSE IF req.name = "admin/search/category"
    THEN Filters(req.category, NoText, Undefined, Undefined, FALSE, <<>>)
    ELSE NoFilters

\* the query a route hands to search()
RouteQuery(req) ==
    IF req.name \in {"admin/search", "admin/search/quick"} THEN req.q ELSE NoText

\* the page size a route hands to search()
RouteLimit(req) ==
    parseInt(Default(req.limit, IF req.name = "admin/search/quick" THEN "5" ELSE "20"))

\* the requests a route answers with status 400 before it searches
RouteRejects(req) ==
    \/ req.name = "admin/search/quick" /\ Len(req.q) < 2
    \/ req.name = "admin/search/category" /\ req.category = NoText

RouteSearchParams(req) ==
    SearchParams(RouteQuery(req), RouteFilters(req), 0, RouteLimit(req))

\* the values callers send
Queries == {NoText, <<"s">>, <<"s", "h", "i", "r", "t">>}

Categories ==
    {NoText,
     <<"shoes">>,
     <<"x", Q, "OR", "status:draft", "OR", "categories:", Q, "y">>,
     <<"x", Q>>}

Currencies ==
    {NoText, <<"usd">>, <<"usd", "OR", "status:draft">>,
     <<"usd", "AND", "(", "status:draft">>}

MinParams == {"", "0", "50"}

MaxParams == {"", "0", "100"}

TagParams ==
    {NoText, <<"a", ",", "b">>, <<"a", Q, ")", "OR", "(", "status:", Q, "draft">>}

Requests ==
    {Request("admin/search", q, c, cc, lo, hi, st, tg, "") :
        q \in {NoText}, c \in Categories, cc \in Currencies, lo \in MinParams,
        hi \in MaxParams, st \in {"", "true"}, tg \in TagParams}
    \cup
    {Request("admin/search/price", NoText, NoText, NoText, lo, hi, "", NoText, "") :
        lo \in MinParams, hi \in MaxParams}
    \cup
    {Request("admin/search/quick", q, NoText, NoText, "", "", "", NoText, lim) :
        q \in Queries, lim \in {"", "5"}}
    \cup
    {Request("admin/search/category", NoText, c, NoText, "", "", "", NoText, "") :
        c \in Categories}

(***************************************************************************)
(* One search request at a time.  op is the request, calls the engine      *)
(* calls it caused, records the value search() returned to the route, and  *)
(* result the route's answer: "success" (status 200), "bad request" (400)  *)
(* or "error" (500).                                                       *)
(***************************************************************************)
InitSearch ==
    /\ Init
    /\ catalog = [p \in ProductIds |-> NoProduct]

\* the engine answered nothing: what an empty result is made of
NoResults ==
    [hits |-> <<>>, nbHits |-> Undefined, page |-> Undefined,
     nbPages |-> Undefined, hitsPerPage |-> Undefined,
     processingTimeMS |-> Undefined]

\* a route up to its call of search()
StartSearchRequest ==
    /\ \E req \in Requests :
          /\ Begin(req)
          /\ IF RouteRejects(req)
             THEN pc' = "done" /\ result' = "bad request"
             ELSE Goto("engine")
    /\ records' = <<>>
    /\ UNCHANGED <<catalog, index, products, validRecords, i>>

\* search(): the engine answers; the route replies, except that the main
\* route searches once more, for diagnosis, when there is no hit
EngineAnswers ==
    /\ pc = "engine"
    /\ Accepted(RouteSearchParams(op).filters)
    /\ \E results \in EngineResponses :
          /\ records' = <<SearchResult(results, RouteQuery(op), RouteLimit(op))>>
          /\ IF op.name = "admin/search" /\ Len(results.hits) = 0
             THEN Goto("debug")
             ELSE pc' = "done" /\ result' = "success"
    /\ calls' = Append(calls, Call("searchSingleIndex", RouteSearchParams(op), TRUE))
    /\ UNCHANGED <<catalog, index, op, products, validRecords, i, hits, fetches,
                   index0, opsLeft>>

\* search(): the engine call fails (it also fails for an expression the
\* engine rejects); search() rethrows and the route's catch answers
EngineFails ==
    /\ pc = "engine"
    /\ calls' = Append(calls, Call("searchSingleIndex", RouteSearchParams(op), FALSE))
    /\ pc' = "done"
    /\ IF SearchFailed = "throw"
       THEN result' = "error" /\ records' = records
       ELSE /\ result' = "success"
            /\ records' = <<SearchResult(NoResults, RouteQuery(op), RouteLimit(op))>>
    /\ UNCHANGED <<catalog, index, op, products, validRecords, i, hits, fetches,
                   index0, opsLeft>>

\* the diagnostic search("", {}, 0, 5) of the main route: its outcome is
\* logged, the reply carries the result of the first search
DebugSearch ==
    /\ pc = "debug"
    /\ \E ok \in BOOLEAN :
          calls' = Append(calls, Call("searchSingleIndex",
                                      SearchParams(NoText, NoFilters, 0, 5), ok))
    /\ pc' = "done"
    /\ result' = "success"
    /\ UNCHANGED <<catalog, index, op, products, records, validRecords, i, hits,
                   fetches, index0, opsLeft>>

NextSearch ==
    \/ StartSearchRequest
    \/ EngineAnswers
    \/ EngineFails
    \/ DebugSearch
    \/ Finish

SpecSearch == InitSearch /\ [][NextSearch]_vars

(***************************************************************************)
(* Properties of search.                                                   *)
(***************************************************************************)
IsSearch(c) == c.call = "searchSingleIndex"

HasConjunct(expression, conjunct) ==
    \E m \in 1..Len(Conjuncts(expression)) : Conjuncts(expression)[m] = conjunct

\* C13: whatever query and filters the caller supplies, a filter expression
\* that search() sends and the engine accepts has `status:published` as one
\* of its top-level conjuncts, and the engine answers no other expression.
C13_PublishedAlwaysConjunct ==
    \A k \in 1..Len(calls) :
        IsSearch(calls[k]) =>
            /\ calls[k].ok => Accepted(calls[k].objects.filters)
            /\ Accepted(calls[k].objects.filters) =>
                  HasConjunct(calls[k].objects.filters, <<"status:published">>)

\* a caller's currency_code carried an operator and a status filter of its
\* own into the expression, and the engine answered
C13_Witness ==
    /\ pc = "done"
    /\ result = "success"
    /\ op.currency_code = <<"usd", "OR", "status:draft">>
    /\ calls[1].ok
    /\ HasConjunct(calls[1].objects.filters,
                   <<"currency_code:", "usd", "OR", "status:draft">>)

\* the expression holds the tokens part, in a row
Contains(expression, part) ==
    \E k \in 1..(Len(expression) - Len(part) + 1) :
        SubSeq(expression, k, k + Len(part) - 1) = part

\* the filters the running request's route handed to search()
Supplied == RouteFilters(op)

SearchCalled == pc \in {"debug", "done"} /\ calls # <<>>

\* C14: when price_min and/or price_max is supplied to search(), the
\* expression sent holds the range `price:lo TO hi` where lo is the supplied
\* price_min (0 when absent) and hi the supplied price_max (the largest safe
\* integer when absent), a supplied 0 included; and in_stock adds
\* `stocked_quantity > 0`.
C14_PriceRangeAsSupplied ==
    SearchCalled =>
        /\ (Supplied.price_min # Undefined \/ Supplied.price_max # Undefined) =>
              Contains(calls[1].objects.filters,
                       <<"price:",
                         NumberText(Coalesce(Supplied.price_min, Num(0))),
                         "TO",
                         NumberText(Coalesce(Supplied.price_max, MAX_SAFE_INTEGER))>>)
        /\ Supplied.in_stock =>
              Contains(calls[1].objects.filters, <<"stocked_quantity", ">", "0">>)

\* search() returned a value to the running request's route
SearchReturned == SearchCalled /\ Len(records) = 1

NumericFields == {"nbHits", "page", "nbPages", "hitsPerPage", "processingTimeMS"}

\* C15: the value search() returns carries hits, nbHits, page, nbPages,
\* hitsPerPage, processingTimeMS and query, and each numeric field is a
\* number (0, or the requested page size for hitsPerPage, when the engine
\* left it out), never undefined.
C15_ResultAlwaysNormalized ==
    SearchReturned =>
        /\ DOMAIN records[1] = NumericFields \cup {"hits", "query"}
        /\ \A f \in NumericFields : records[1][f].t = "number"
        /\ records[1].query = RouteQuery(op)

\* the running request got past its route's parameter check
Searched == pc = "done" /\ result # "bad request"

\* C16: when the engine call of a request's search() fails, search() fails
\* and the route answers with status 500; a route answers with success only
\* with the result of an engine call that succeeded.
C16_EngineErrorSurfaces ==
    Searched =>
        /\ ~calls[1].ok => (result = "error" /\ records = <<>>)
        /\ result = "success" => (calls[1].ok /\ Len(records) = 1)

\* the engine call of a search failed and the route answered 500
C16_Witness ==
    /\ Searched
    /\ op.name = "admin/search/quick"
    /\ ~calls[1].ok
    /\ result = "error"

\* getVariantInventoryQuantity returned to the script's record loop
LookupReturned == pc = "save" /\ op.name = "sync" /\ op.script \in Scripts

\* C17: getVariantInventoryQuantity returns to the record loop after exactly
\* one request to the inventory endpoint, whatever the endpoint answered, and
\* the value it returns is a number >= 0, which is 0 when the request failed.
C17_ResolverNonNegative ==
    LookupReturned =>
        /\ Len(fetches) = 1
        /\ records[1].stocked_quantity.t = "number"
        /\ records[1].stocked_quantity.n >= 0
        /\ ~fetches[1].ok => records[1].stocked_quantity = Num(0)

\* a record of the source pair was built by the running operation
RecordBuilt == pc \in {"save", "done"} /\ Len(records) = 1

\* the variant's direct quantity field holds a quantity
DirectPopulated ==
    /\ catalog.variant.inventory_quantity.t = "number"
    /\ catalog.variant.inventory_quantity.n > 0

NestedPopulated == catalog.variant.inventory_items # <<>>

\* C18: the stocked_quantity of a record built for a variant is the value of
\* the variant's direct quantity field when that field is populated, whatever
\* the nested inventory items hold; else the total of the nested items when
\* there are any; and only when neither is populated what the remote lookup
\* returned.
C18_InventoryPrecedence ==
    RecordBuilt =>
        LET stocked == records[1].stocked_quantity
        IN  IF DirectPopulated
            THEN stocked = catalog.variant.inventory_quantity
            ELSE IF NestedPopulated
            THEN stocked = Reduce(catalog.variant.inventory_items, Num(0))
            ELSE op.name = "sync" =>
                    stocked \in {InventoryTotal(catalog.inventory), InventoryUnavailable}

\* C19: in every record built for indexing, by transformProductToRecord and
\* by the sync scripts, price and stocked_quantity are numbers >= 0, whatever
\* the source fields hold.
C19_NumbersNonNegative ==
    RecordBuilt =>
        /\ records[1].price.t = "number"
        /\ records[1].price.n >= 0
        /\ records[1].stocked_quantity.t = "number"
        /\ records[1].stocked_quantity.n >= 0

\* the slug of the title of the source product: lowercase, every run of
\* non-alphanumeric characters one hyphen, no hyphen at either end
SlugOfSourceTitle == "blue-t-shirt"

\* C20: the handle of a record built for indexing is product.handle when the
\* product has one, else the slug of the product's title, and so is never
\* empty for a titled product.
C20_HandleOrSlug ==
    RecordBuilt =>
        /\ records[1].handle =
               IF Truthy(catalog.product.handle) THEN catalog.product.handle
               ELSE Str(SlugOfSourceTitle)
        /\ Truthy(records[1].handle)

(***************************************************************************)
(* Failure isolation in the event subscriber.                              *)
(***************************************************************************)
\* the names the six handlers run under
EventHandlers == LoggedEvents \cup {"handleProductDeleted"}

\* the last engine call of the running operation threw
LastCallFailed == Len(calls) > 0 /\ ~calls[Len(calls)].ok

\* C21: a handler of the subscriber never throws to the event bus: it ends
\* "ok", or "logged" when its engine call threw; a logged failure leaves the
\* index as the handler found it, so the next event is handled as if the
\* failed one had not happened.
C21_HandlerIsolatesFailure ==
    Finished(EventHandlers) =>
        /\ result \in {"ok", "logged"}
        /\ result = "logged" => index = index0 /\ LastCallFailed

\* the deleteObjects call of handleProductDeleted threw after the search
\* found records, and the handler ended by logging
C21_Witness ==
    /\ Finished({"handleProductDeleted"})
    /\ result = "logged"
    /\ Len(calls) = 2
    /\ calls[2].call = "deleteObjects"
    /\ ~calls[2].ok
    /\ hits # {}

(***************************************************************************)
(* Start of the hosting process: the Algolia loader and the evaluation of  *)
(* the route modules (SpecStartup).  The variables carry:                  *)
(*   catalog  the environment: ALGOLIA_APP_ID and ALGOLIA_ADMIN_API_KEY,   *)
(*            "" when the variable is not set                              *)
(*   index    the names registered in the container                        *)
(*   hits     the modules evaluated so far                                 *)
(*   calls    one entry per evaluated module, in order: its name, what it  *)
(*            logged, and whether it completed without throwing            *)
(***************************************************************************)
Credentials == {"", "  ", "key"}

Environments == [appId : Credentials, apiKey : Credentials]

\* String.prototype.trim on the values above
trim(s) == IF s = "  " THEN "" ELSE s

\* new AlgoliaService(appId, apiKey, indexName) throws
ConstructorThrows(env) ==
    \/ env.appId = "" \/ trim(env.appId) = ""
    \/ env.apiKey = "" \/ trim(env.apiKey) = ""

\* nothing registered, evaluated or running
Quiet ==
    /\ index = {}
    /\ pc = "idle"
    /\ op = NoOp
    /\ products = <<>>
    /\ records = <<>>
    /\ validRecords = <<>>
    /\ i = 0
    /\ hits = {}
    /\ calls = <<>>
    /\ fetches = <<>>
    /\ result = "none"
    /\ index0 = {}
    /\ opsLeft = MaxOps

InitStartup ==
    /\ catalog \in Environments
    /\ Quiet

\* algoliaLoader(container): the outcome it logs, and what it registers
AlgoliaLoader ==
    /\ pc = "idle"
    /\ "loaders/algolia" \notin hits
    /\ hits' = hits \cup {"loaders/algolia"}
    /\ \E initialized \in BOOLEAN :
          LET outcome ==
                  IF catalog.appId = "" \/ catalog.apiKey = "" THEN <<"skipped">>
                  ELSE IF ConstructorThrows(catalog) THEN <<"failed">>
                  ELSE IF initialized THEN <<"registered">>
                  ELSE <<"registered", "failed">>
          IN  /\ index' = IF outcome[1] = "registered"
                          THEN index \cup {"algoliaService"} ELSE index
              /\ calls' = Append(calls, Call("loaders/algolia", outcome, TRUE))
    /\ UNCHANGED <<catalog, pc, op, products, records, validRecords, i,
                   fetches, result, index0, opsLeft>>

\* the route modules that build their AlgoliaService in a module-level const
ModuleLevelService ==
    {"api/admin/search", "api/admin/search/category",
     "api/admin/search/price", "api/admin/search/quick"}

RouteModules == ModuleLevelService \cup {"api/store/search/index"}

\* the host evaluates a route module; a module-level constructor that throws
\* makes the evaluation throw
LoadRouteModule ==
    /\ pc = "idle"
    /\ \E m \in RouteModules \ hits :
          /\ hits' = hits \cup {m}
          /\ calls' = Append(calls, Call(m, NoObjects,
                         ~(m \in ModuleLevelService /\ ConstructorThrows(catalog))))
    /\ UNCHANGED <<catalog, index, pc, op, products, records, validRecords, i,
                   fetches, result, index0, opsLeft>>

NextStartup ==
    \/ AlgoliaLoader
    \/ LoadRouteModule

SpecStartup == InitStartup /\ [][NextStartup]_vars

\* ALGOLIA_APP_ID or ALGOLIA_ADMIN_API_KEY is not set
CredentialsAbsent == catalog.appId = "" \/ catalog.apiKey = ""

\* C22: when the application id or the API key is absent from the
\* environment, the loader registers no service, and neither the loader nor
\* any search or index route module throws while the process starts.
C22_MissingCredentialsNotFatal ==
    CredentialsAbsent =>
        /\ "algoliaService" \notin index
        /\ \A k \in 1..Len(calls) : calls[k].ok

(***************************************************************************)
(* The same operations over a catalog whose first product carries a        *)
(* defective variant: one without an id, or null (SpecDefects).            *)
(***************************************************************************)
DefectiveVariantLists ==
    {<<[id |-> ""], [id |-> "B"]>>, <<[id |-> "A"], NullVariant>>}

DefectiveCatalogs ==
    {[p \in ProductIds |->
         IF p = "p1" THEN [id |-> "p1", title |-> t, variants |-> vs] ELSE second] :
       t \in {"T1", "T2"}, vs \in DefectiveVariantLists,
       second \in ProductsOf("p2") \cup {NoProduct}}

InitDefects ==
    /\ catalog \in DefectiveCatalogs
    /\ Quiet

SpecDefects == InitDefects /\ [][Next]_vars

\* a bulk indexing pass ended, and no engine or catalog call of it failed
PassEnded ==
    /\ Finished({"indexProducts", "sync"})
    /\ \A k \in 1..Len(calls) : calls[k].ok
    /\ \A k \in 1..Len(fetches) : fetches[k].ok

\* the objectIDs either writer gives the pair (product p, variant id vid)
KeysOf(p, vid) == {p.id \o "_" \o vid, p.id \o "-" \o vid}

\* C24: a variant that fails validation or whose transform throws is skipped,
\* and only it: a bulk pass whose calls all succeeded ends normally, has
\* upserted a record for every variant with an id of every titled product,
\* and has sent no record for a variant without an id.
C24_DefectiveVariantSkipped ==
    PassEnded =>
        /\ result = "ok"
        /\ \A k \in 1..Len(products) : \A j \in 1..Len(products[k].variants) :
              LET p == products[k]
                  v == p.variants[j]
              IN  IF validateVariant(v)
                  THEN Titled(p) => \E r \in index : r.objectID \in KeysOf(p, v.id)
                  ELSE \A c \in 1..Len(calls) : \A r \in Range(calls[c].objects) :
                          r.objectID \notin KeysOf(p, TemplateText(v.id))

\* C23: in updateProduct every saveObjects call comes after the product_id
\* search has answered and, when the search found records, after deleteObjects
\* has completed; after a failed search or deleteObjects no saveObjects call
\* is issued.
C23_DeleteBeforeUpsert ==
    op.name = "updateProduct" =>
        \A k \in 1..Len(calls) : IsSave(calls[k]) =>
            /\ calls[1].call = "searchSingleIndex"
            /\ \A j \in 1..(k - 1) :
                  calls[j].call \in {"searchSingleIndex", "deleteObjects"} => calls[j].ok
            /\ hits # {} => k > 2 /\ calls[2].call = "deleteObjects"

\* updateProduct found records of the product, deleted them, then upserted
C23_Witness ==
    /\ Finished({"updateProduct"})
    /\ result = "ok"
    /\ hits # {}
    /\ Len(calls) = 3
    /\ calls[2].call = "deleteObjects"
    /\ IsSave(calls[3])

\* C27: updateProduct for a product without an id, without a title or without
\* variants fails before any engine call: it issues no search, delete or
\* upsert, and the index is as it was, whatever it held for the product.
C27_InvalidUpdateTouchesNothing ==
    (/\ Finished({"updateProduct"})
     /\ op.product.id = "" \/ op.product.title = "" \/ Len(op.product.variants) = 0) =>
        /\ result = "error"
        /\ calls = <<>>
        /\ index = index0

\* an update with a product that lost its title, while the index holds
\* records of that product
C27_Witness ==
    /\ Finished({"updateProduct"})
    /\ op.product.id # ""
    /\ op.product.title = ""
    /\ \E r \in index : r.product_id = op.product.id
    /\ result = "error"

(***************************************************************************)
(* Two updateProduct calls for the same product in flight at once          *)
(* (SpecConcurrent).  The service holds no lock, and every await is a      *)
(* point where the other call's engine requests can be served.  The        *)
(* variables carry, per call u: op[u] the product it was handed, pc[u] its *)
(* position, hits[u] the hits of its search; fetches is the order in which *)
(* the calls' engine requests were served.                                 *)
(***************************************************************************)
Updaters == {1, 2}

\* the products updateProduct accepts for p1
ValidVersions == {p \in ProductsOf("p1") : validateProduct(p)}

InitConcurrent ==
    /\ catalog = [p \in ProductIds |-> NoProduct]
    /\ op \in {o \in [Updaters -> ValidVersions] : o[1] # o[2]}
    /\ index \in {{}} \cup {Range(IndexProductsRecords(<<p>>)) : p \in ValidVersions}
    /\ pc = [u \in Updaters |-> "del_search"]
    /\ hits = [u \in Updaters |-> {}]
    /\ products = <<>>
    /\ records = <<>>
    /\ validRecords = <<>>
    /\ i = 0
    /\ calls = <<>>
    /\ fetches = <<>>
    /\ result = "none"
    /\ index0 = index
    /\ opsLeft = MaxOps

ConcurrentFrame == UNCHANGED <<catalog, op, products, records, validRecords, i, result, index0, opsLeft>>

\* deleteProduct: the product_id search of call u
UpdaterSearch(u) ==
    /\ pc[u] = "del_search"
    /\ \E page \in Pages(Matching(index, op[u].id)) :
          /\ hits' = [hits EXCEPT ![u] = page]
          /\ pc' = [pc EXCEPT ![u] = IF page = {} THEN "save" ELSE "del_delete"]
    /\ calls' = Append(calls, Call("searchSingleIndex", NoObjects, TRUE))
    /\ fetches' = Append(fetches, u)
    /\ index' = index
    /\ ConcurrentFrame

\* deleteProduct: deleteObjects with the ids of the hits of call u
UpdaterDelete(u) ==
    /\ pc[u] = "del_delete"
    /\ index' = DeleteObjects(index, {h.objectID : h \in hits[u]})
    /\ pc' = [pc EXCEPT ![u] = "save"]
    /\ calls' = Append(calls, Call("deleteObjects", NoObjects, TRUE))
    /\ fetches' = Append(fetches, u)
    /\ hits' = hits
    /\ ConcurrentFrame

\* indexProducts([product]): the one saveObjects batch of call u
UpdaterSave(u) ==
    /\ pc[u] = "save"
    /\ LET batch == SelectSeq(IndexProductsRecords(<<op[u]>>), validateAlgoliaRecord)
       IN  /\ index' = SaveObjects(index, batch)
           /\ calls' = Append(calls, Call("saveObjects", batch, TRUE))
    /\ pc' = [pc EXCEPT ![u] = "done"]
    /\ fetches' = Append(fetches, u)
    /\ hits' = hits
    /\ ConcurrentFrame

\* the engine call call u is waiting for throws: updateProduct rethrows
UpdaterFails(u) ==
    /\ pc[u] \in {"del_search", "del_delete", "save"}
    /\ pc' = [pc EXCEPT ![u] = "failed"]
    /\ calls' = Append(calls, Call("failed", NoObjects, FALSE))
    /\ fetches' = Append(fetches, u)
    /\ UNCHANGED <<index, hits>>
    /\ ConcurrentFrame

NextConcurrent ==
    \/ \E u \in Updaters : UpdaterSearch(u)
    \/ \E u \in Updaters : UpdaterDelete(u)
    \/ \E u \in Updaters : UpdaterSave(u)
    \/ \E u \in Updaters : UpdaterFails(u)

SpecConcurrent == InitConcurrent /\ [][NextConcurrent]_vars

\* the record set updateProduct writes for product p
WrittenBy(p) == Range(IndexProductsRecords(<<p>>))

\* C25: when two updateProduct calls for one product have both completed,
\* whatever the interleaving of their engine calls, the index holds for the
\* product exactly the record set one of the two calls wrote.
C25_LastWriteWins ==
    (\A u \in Updaters : pc[u] = "done") =>
        \E u \in Updaters : {r \in index : r.product_id = "p1"} = WrittenBy(op[u])

(***************************************************************************)
(* The customers OTP routes (SpecOtp).  The send route and the verify      *)
(* route are two modules, and each builds its own otpStore with            *)
(* new Map() when it is loaded.  The variables carry:                      *)
(*   catalog  the two Maps: catalog.send and catalog.verify, phone ->      *)
(*            [code, expiresAt] or NoOtp                                   *)
(*   i        Date.now(), in minutes                                       *)
(*   op       the last request: [name, phone, otp]                         *)
(*   result   the status of its response                                   *)
(***************************************************************************)
MaxClock == 20

Phones == {"+911", "+912"}

\* Math.floor(100000 + Math.random() * 900000).toString()
Codes == {"111111", "222222"}

OTP_EXPIRY_MINUTES == 10

NoOtp == [code |-> "", expiresAt |-> 0]

\* the Map the verify route reads: its own module-level otpStore
VerifyStore == "verify"

InitOtp ==
    /\ catalog = [m \in {"send", "verify"} |-> [p \in Phones |-> NoOtp]]
    /\ Quiet

OtpFrame == UNCHANGED <<index, pc, products, records, validRecords, hits, calls, fetches, index0, opsLeft>>

\* POST of the send route
SendOtp ==
    /\ \E phone \in Phones \cup {""}, otp \in Codes :
          /\ op' = [name |-> "send", phone |-> phone, otp |-> otp]
          /\ IF phone = ""
             THEN /\ result' = "400"
                  /\ catalog' = catalog
             ELSE /\ result' = "200"
                  /\ catalog' = [catalog EXCEPT !.send[phone] =
                         [code |-> otp, expiresAt |-> i + OTP_EXPIRY_MINUTES]]
    /\ i' = i
    /\ OtpFrame

\* POST of the verify route; after the OTP check the customer lookup decides
\* between 200 (customer exists), 202 (no customer) and 500 (lookup threw)
VerifyOtp ==
    /\ \E phone \in Phones \cup {""}, otp \in Codes \cup {"", "000000"} :
          /\ op' = [name |-> "verify", phone |-> phone, otp |-> otp]
          /\ IF phone = "" \/ otp = ""
             THEN result' = "400" /\ catalog' = catalog
             ELSE LET otpRecord == catalog[VerifyStore][phone]
                  IN  IF otpRecord = NoOtp
                      THEN result' = "401" /\ catalog' = catalog
                      ELSE IF i > otpRecord.expiresAt
                      THEN /\ result' = "401"
                           /\ catalog' = [catalog EXCEPT ![VerifyStore][phone] = NoOtp]
                      ELSE IF otpRecord.code # otp
                      THEN result' = "401" /\ catalog' = catalog
                      ELSE /\ result' \in {"200", "202", "500"}
                           /\ catalog' = [catalog EXCEPT ![VerifyStore][phone] = NoOtp]
    /\ i' = i
    /\ OtpFrame

\* five minutes pass
TickOtp ==
    /\ i + 5 <= MaxClock
    /\ i' = i + 5
    /\ op' = NoOp
    /\ result' = "none"
    /\ catalog' = catalog
    /\ OtpFrame

NextOtp ==
    \/ SendOtp
    \/ VerifyOtp
    \/ TickOtp

SpecOtp == InitOtp /\ [][NextOtp]_vars

\* the request served by this step is a verify request that submits, before
\* its expiry, the code the send route last issued for the phone
SubmitsIssuedOtp ==
    /\ op'.name = "verify"
    /\ op'.phone \in Phones
    /\ catalog.send[op'.phone] # NoOtp
    /\ catalog.send[op'.phone].code = op'.otp
    /\ i <= catalog.send[op'.phone].expiresAt

\* C26: the verify route checks the store the send route writes to: an OTP
\* issued by the send route for a phone and submitted unchanged before its
\* expiry is not answered 401, and the accepted entry is gone afterwards.
C26_IssuedOtpAccepted ==
    [][SubmitsIssuedOtp =>
          /\ result' \in {"200", "202", "500"}
          /\ catalog'.send[op'.phone] = NoOtp]_vars

(***************************************************************************)
(* The bulk inventory POST handler (SpecBulk).  The variables carry:       *)
(*   products      req.body.operations                                     *)
(*   i             the number of operations the loop has taken             *)
(*   index0        results.processed                                       *)
(*   records       results.errors                                          *)
(*   validRecords  results.success                                         *)
(*   op            [name, looping]: looping once the for loop is entered   *)
(*   result        the response: its status, and its type when not 200     *)
(***************************************************************************)
MaxOperations == 3

\* null at a position of the operations array
NullOperation == [null |-> TRUE]

InventoryOperations ==
    {[operation |-> k, variant_id |-> "v1"] : k \in {"update", "set_location", "delete", "restock"}}
        \cup {NullOperation}

OperationArrays == UNION {[1..n -> InventoryOperations] : n \in 0..MaxOperations}

InitBulk ==
    /\ catalog = [p \in ProductIds |-> NoProduct]
    /\ Quiet

BulkFrame == UNCHANGED <<catalog, index, hits, calls, fetches, opsLeft>>

\* POST up to the for loop: the body check and the resolution of the services
StartBulk ==
    /\ pc = "idle"
    /\ i' = 0
    /\ index0' = 0
    /\ records' = <<>>
    /\ validRecords' = <<>>
    /\ \E isArray \in BOOLEAN, operations \in OperationArrays, services \in {"resolved", "inventory missing", "product missing", "resolve throws"} :
          /\ products' = IF isArray THEN operations ELSE <<>>
          /\ op' = [name |-> "POST", looping |-> isArray /\ services = "resolved"]
          /\ IF ~isArray THEN pc' = "done" /\ result' = "400 invalid_data"
             ELSE IF services \in {"inventory missing", "product missing"}
             THEN pc' = "done" /\ result' = "500 service_error"
             ELSE IF services = "resolve throws"
             THEN pc' = "done" /\ result' = "500 inventory_error"
             ELSE pc' = "loop" /\ result' = "none"
    /\ BulkFrame

\* one turn of the for loop, or the response after the last one
ProcessOperation ==
    /\ pc = "loop"
    /\ UNCHANGED <<op, products>>
    /\ BulkFrame
    /\ IF i = Len(products)
       THEN /\ pc' = "done"
            /\ result' = "200"
            /\ UNCHANGED <<i, index0, records, validRecords>>
       ELSE LET operation == products[i + 1]
            IN  IF "null" \in DOMAIN operation
                THEN \* operation.location_id throws, and so does
                     \* operation.variant_id in the loop's catch
                     /\ pc' = "done"
                     /\ result' = "500 inventory_error"
                     /\ UNCHANGED <<i, index0, records, validRecords>>
                ELSE /\ i' = i + 1
                     /\ pc' = "loop"
                     /\ result' = "none"
                     /\ \E variant \in {"listed", "not listed", "retrieved", "not found"}, service \in {"ok", "throws"} :
                           IF variant \in {"not listed", "not found"}
                           THEN /\ records' = Append(records, "Variant not found")
                                /\ UNCHANGED <<index0, validRecords>>
                           ELSE IF operation.operation \notin {"update", "set_location", "delete"}
                           THEN /\ records' = Append(records, "Unknown operation")
                                /\ UNCHANGED <<index0, validRecords>>
                           ELSE IF service = "throws"
                           THEN /\ records' = Append(records, "Failed")
                                /\ UNCHANGED <<index0, validRecords>>
                           ELSE /\ validRecords' = Append(validRecords,
                                       IF operation.operation = "delete" THEN "Deleted" ELSE "Updated")
                                /\ index0' = index0 + 1
                                /\ records' = records

\* the caller takes the response
FinishBulk ==
    /\ pc = "done"
    /\ pc' = "idle"
    /\ op' = NoOp
    /\ products' = <<>>
    /\ records' = <<>>
    /\ validRecords' = <<>>
    /\ i' = 0
    /\ index0' = {}
    /\ result' = "none"
    /\ BulkFrame

NextBulk ==
    \/ StartBulk
    \/ ProcessOperation
    \/ FinishBulk

SpecBulk == InitBulk /\ [][NextBulk]_vars

\* the handler entered its loop and has answered
LoopAnswered == pc = "done" /\ op.name = "POST" /\ op.looping

\* C28: once the loop is entered the handler answers 200 with every operation
\* accounted for exactly once: the loop took every operation, processed plus
\* the number of errors is the number of operations, and success has one
\* entry per processed operation.
C28_EveryOperationAccounted ==
    LoopAnswered =>
        /\ result = "200"
        /\ i = Len(products)
        /\ index0 + Len(records) = Len(products)
        /\ Len(validRecords) = index0

(***************************************************************************)
(* RateLimitService.isRateLimited (SpecRate).  The variables carry:        *)
(*   catalog  the Redis sorted sets: key -> [scores, expireAt], the scores *)
(*            of the members in insertion order and the time the key       *)
(*            expires (a key without members has no expiry)                *)
(*   i        Date.now(), in minutes                                       *)
(*   fetches  every call that returned, in order: [key, time, limited]     *)
(*   op       the last call: [name, key]                                   *)
(*   result   what it returned: "true", "false", or "error" when it threw  *)
(***************************************************************************)
MaxCalls == 7

\* RATE_LIMIT_WINDOW_MS, default 600000: ten minutes
windowSizeMs == 10

\* RATE_LIMIT_MAX_REQUESTS, default 5
maxRequests == 5

\* `send-otp:${formattedPhone}`
RateKeys == {"send-otp:+911", "send-otp:+912"}

NoMembers == [scores |-> <<>>, expireAt |-> 0]

InitRate ==
    /\ catalog = [k \in RateKeys |-> NoMembers]
    /\ Quiet

RateFrame == UNCHANGED <<index, pc, products, records, validRecords, hits, calls, index0, opsLeft>>

\* requests.length >= this.maxRequests
LimitedOffByOne(requests) == Len(requests) > maxRequests

Limited(requests) == Len(requests) >= maxRequests

\* isRateLimited(key): the MULTI of zrangebyscore, zadd and expire, or the
\* throw when the client is not connected or exec fails
IsRateLimited ==
    /\ Len(fetches) < MaxCalls
    /\ \E key \in RateKeys, connected \in BOOLEAN :
          /\ op' = [name |-> "isRateLimited", key |-> key]
          /\ IF ~connected
             THEN /\ result' = "error"
                  /\ UNCHANGED <<catalog, fetches>>
             ELSE LET inWindow(score) == score >= i - windowSizeMs /\ score <= i
                      requests == SelectSeq(catalog[key].scores, inWindow)
                  IN  /\ catalog' = [catalog EXCEPT ![key] =
                             [scores |-> Append(catalog[key].scores, i),
                              expireAt |-> i + 2 * windowSizeMs]]
                      /\ result' = IF Limited(requests) THEN "true" ELSE "false"
                      /\ fetches' = Append(fetches,
                             [key |-> key, time |-> i, limited |-> Limited(requests)])
    /\ i' = i
    /\ RateFrame

\* five minutes pass; Redis drops the keys whose expiry has come
TickRate ==
    /\ i + 5 <= MaxClock
    /\ i' = i + 5
    /\ catalog' = [k \in RateKeys |->
                      IF catalog[k] # NoMembers /\ catalog[k].expireAt <= i + 5
                      THEN NoMembers ELSE catalog[k]]
    /\ op' = NoOp
    /\ result' = "none"
    /\ fetches' = fetches
    /\ RateFrame

NextRate ==
    \/ IsRateLimited
    \/ TickRate

SpecRate == InitRate /\ [][NextRate]_vars

\* the last call returned
CallReturned == op.name = "isRateLimited" /\ result \in {"true", "false"}

\* the positions in the log of the earlier calls for the last call's key
\* whose timestamps lie within the window that ends now
EarlierInWindow ==
    {k \in 1..(Len(fetches) - 1) :
        /\ fetches[k].key = op.key
        /\ fetches[k].time >= i - windowSizeMs}

\* C29: isRateLimited(key) returns true exactly when at least maxRequests
\* earlier calls for the key have timestamps within the last windowSizeMs,
\* and the call has recorded its own timestamp whether it reports the key
\* limited or not.
C29_LimitedIffWindowFull ==
    CallReturned =>
        /\ (result = "true") <=> (Cardinality(EarlierInWindow) >= maxRequests)
        /\ \E k \in 1..Len(catalog[op.key].scores) : catalog[op.key].scores[k] = i

\* a call reported limited only because a call that was itself rejected as
\* limited counts: fewer than maxRequests of the earlier calls in the window
\* were let through
C29_Witness ==
    /\ CallReturned
    /\ result = "true"
    /\ Cardinality({k \in EarlierInWindow : ~fetches[k].limited}) < maxRequests
    /\ \E k \in EarlierInWindow : fetches[k].limited

(***************************************************************************)
(* The auth verify-otp and signup routes over OTPStorageService            *)
(* (SpecSignup).  A signup handler awaits five calls in turn, and other    *)
(* requests are served between them.  The variables carry:                 *)
(*   catalog  Redis: phone -> the time the key otp-verified:<phone>        *)
(*            expires, 0 when the key does not exist                       *)
(*   i        the time, in minutes                                         *)
(*   hits     the signup requests in flight: [id, phone, step]             *)
(*   index    the customers created: [phone, by]                           *)
(*   calls    the log: "verified" (flag stored), "passed" (a signup's      *)
(*            flag check passed) and "answered" (a signup's response,      *)
(*            with the flag's presence before and after its last step)     *)
(***************************************************************************)
MaxRequests == 3

\* client.set(key, "verified", "EX", 300): five minutes
VerifiedTtl == 5

\* client.get(key) of OTPStorageService.isOTPVerified
isOTPVerified(store, phone, now) == store[phone] > now

\* client.del(key) of OTPStorageService.removeVerifiedOTP
removeVerifiedOTP(store, phone) == [store EXCEPT ![phone] = 0]

InitSignup ==
    /\ catalog = [p \in Phones |-> 0]
    /\ Quiet

SignupFrame == UNCHANGED <<pc, op, products, records, validRecords, fetches, result, index0, opsLeft>>

\* the requests that have arrived: each left one of these entries
Arrivals ==
    {k \in 1..Len(calls) :
        calls[k].e \in {"verified", "passed"} \/ calls[k].status = "401"}

Event(e, id, phone, status, had, has) == [e |-> e, id |-> id, phone |-> phone, time |-> i, status |-> status, had |-> had, has |-> has]

\* POST verify-otp with a code Twilio accepts and Redis connected: the flag
\* is stored (any other request to the route stores nothing)
VerifyOtpStores ==
    /\ Cardinality(Arrivals) < MaxRequests
    /\ \E phone \in Phones :
          /\ catalog' = [catalog EXCEPT ![phone] = i + VerifiedTtl]
          /\ calls' = Append(calls, Event("verified", Len(calls) + 1, phone, "", FALSE, TRUE))
    /\ UNCHANGED <<index, hits, i>>
    /\ SignupFrame

\* POST signup up to its first await: the flag check
SignupCheck ==
    /\ Cardinality(Arrivals) < MaxRequests
    /\ \E phone \in Phones :
          LET id == Len(calls) + 1
              had == isOTPVerified(catalog, phone, i)
          IN  IF had
              THEN /\ hits' = hits \cup {[id |-> id, phone |-> phone, step |-> "register"]}
                   /\ calls' = Append(calls, Event("passed", id, phone, "", TRUE, TRUE))
              ELSE /\ hits' = hits
                   /\ calls' = Append(calls, Event("answered", id, phone, "401", FALSE, FALSE))
    /\ UNCHANGED <<catalog, index, i>>
    /\ SignupFrame

\* the step after step of a signup
AfterStep(step) ==
    IF step = "register" THEN "customer"
    ELSE IF step = "customer" THEN "auth"
    ELSE "remove"

\* one awaited call of a signup in flight returns: register, create the
\* customer, authenticate, remove the flag
SignupStep ==
    /\ \E r \in hits, ok \in BOOLEAN :
          LET had == isOTPVerified(catalog, r.phone, i)
              removed == removeVerifiedOTP(catalog, r.phone)
          IN  /\ index' = IF ok /\ r.step = "customer"
                          THEN index \cup {[phone |-> r.phone, by |-> r.id]} ELSE index
              /\ catalog' = IF ok /\ r.step = "remove" THEN removed ELSE catalog
              /\ IF ~ok
                 THEN /\ hits' = hits \ {r}
                      /\ calls' = Append(calls, Event("answered", r.id, r.phone, "500", had, had))
                 ELSE IF r.step = "remove"
                 THEN /\ hits' = hits \ {r}
                      /\ calls' = Append(calls, Event("answered", r.id, r.phone, "200", had,
                                             isOTPVerified(removed, r.phone, i)))
                 ELSE /\ hits' = (hits \ {r}) \cup {[r EXCEPT !.step = AfterStep(r.step)]}
                      /\ calls' = calls
    /\ i' = i
    /\ SignupFrame

\* five minutes pass
TickSignup ==
    /\ i + 5 <= MaxClock
    /\ i' = i + 5
    /\ UNCHANGED <<catalog, index, hits, calls>>
    /\ SignupFrame

NextSignup ==
    \/ VerifyOtpStores
    \/ SignupCheck
    \/ SignupStep
    \/ TickSignup

SpecSignup == InitSignup /\ [][NextSignup]_vars

\* at log position m the phone's flag is in force: a verification stored it
\* less than five minutes earlier and no successful signup removed it since
FlagInForce(m) ==
    \E k \in 1..(m - 1) :
        /\ calls[k].e = "verified"
        /\ calls[k].phone = calls[m].phone
        /\ calls[m].time < calls[k].time + VerifiedTtl
        /\ \A j \in (k + 1)..(m - 1) :
              ~(calls[j].phone = calls[m].phone /\ calls[j].status = "200")

\* the signups for the phone answered 200, and the verifications that stored
\* the phone's flag
Completed(phone) == {m \in 1..Len(calls) : calls[m].status = "200" /\ calls[m].phone = phone}

Verifications(phone) == {k \in 1..Len(calls) : calls[k].e = "verified" /\ calls[k].phone = phone}

\* C30: signup is gated by a single-use verification: a signup passes the
\* flag check exactly when the phone's flag is in force and is answered 401
\* otherwise; only signups that passed the check create a customer; a signup
\* answered 200 has removed the flag and one that fails part-way leaves it as
\* it was; and no phone has more signups answered 200 than it has
\* verifications, a second signup without a new verification being rejected.
C30_SignupGatedOnce ==
    /\ \A m \in 1..Len(calls) :
          /\ calls[m].e = "passed" => FlagInForce(m)
          /\ calls[m].status = "401" => ~FlagInForce(m)
          /\ calls[m].status = "200" => ~calls[m].has
          /\ calls[m].status = "500" => (calls[m].has <=> calls[m].had)
    /\ \A c \in index : \E m \in 1..Len(calls) :
          calls[m].e = "passed" /\ calls[m].id = c.by /\ calls[m].phone = c.phone
    /\ \A phone \in Phones :
          Cardinality(Completed(phone)) <= Cardinality(Verifications(phone))

====
